---- MODULE Spec2Model ----
(***************************************************************************)
(* nikola/winutils.py: is_file_into_dir and fix_all_git_symlinked.         *)
(*                                                                         *)
(* Strings are sequences of tokens.  A token is a path separator ("\\" or  *)
(* "/"), a drive ("C:", "D:"), a blank (" "), a newline ("\n", manifest    *)
(* only) or a path component ("top", "l1", "..", ".hid", ...).  The        *)
(* inputs are well formed: two components are never adjacent in a string,  *)
(* so a component is one token.  Names are lower case, so the case folding *)
(* of ntpath.normcase is the identity on them.                             *)
(***************************************************************************)
EXTENDS Integers, Sequences, FiniteSets, TLC

SEP == "\\"
ALTSEP == "/"
NL == "\n"
BLANK == " "
Seps == {SEP, ALTSEP}
Drives == {"C:", "D:"}
\* the tokens whose first character is '.'
DotToks == {".", "..", ".hid"}

----------------------------------------------------------------------------
\* Generic sequence helpers.

\* str.replace('/', '\\') token by token
ReplaceAlt(s) == [k \in 1..Len(s) |-> IF s[k] = ALTSEP THEN SEP ELSE s[k]]

IsPrefix(p, s) == Len(p) <= Len(s) /\ SubSeq(s, 1, Len(p)) = p

\* str.startswith('.')
StartsWithDot(s) == Len(s) > 0 /\ s[1] \in DotToks

RECURSIVE LStrip(_)
LStrip(s) == IF s # <<>> /\ s[1] \in {BLANK, NL} THEN LStrip(Tail(s)) ELSE s

RECURSIVE RStrip(_)
RStrip(s) ==
    IF s # <<>> /\ s[Len(s)] \in {BLANK, NL}
    THEN RStrip(SubSeq(s, 1, Len(s) - 1)) ELSE s

\* str.strip()
Strip(s) == RStrip(LStrip(s))

RECURSIVE SplitAcc(_, _, _)
SplitAcc(s, cur, acc) ==
    IF s = <<>> THEN Append(acc, cur)
    ELSE IF s[1] = NL THEN SplitAcc(Tail(s), <<>>, Append(acc, cur))
    ELSE SplitAcc(Tail(s), Append(cur, s[1]), acc)

\* str.split('\n')
SplitLines(s) == SplitAcc(s, <<>>, <<>>)

----------------------------------------------------------------------------
\* ntpath.

\* ntpath.splitdrive: the drive ("" when there is none) and the rest
SplitDrive(s) ==
    IF s # <<>> /\ s[1] \in Drives
    THEN [drv |-> s[1], rest |-> Tail(s)]
    ELSE [drv |-> "", rest |-> s]

WithDrive(drv, rest) == IF drv = "" THEN rest ELSE <<drv>> \o rest

\* ntpath.join(path, p)
PathJoin(path, p) ==
    LET r == SplitDrive(path)
        q == SplitDrive(p)
    IN  IF q.rest # <<>> /\ q.rest[1] \in Seps
        THEN \* second path is absolute
             WithDrive(IF q.drv # "" \/ r.drv = "" THEN q.drv ELSE r.drv, q.rest)
        ELSE IF q.drv # "" /\ q.drv # r.drv
        THEN WithDrive(q.drv, q.rest)
        ELSE \* second path is relative to the first
             WithDrive(r.drv,
                       (IF r.rest # <<>> /\ r.rest[Len(r.rest)] \notin Seps
                        THEN Append(r.rest, SEP) ELSE r.rest) \o q.rest)

\* the components of a drive-less path: str.split(sep) without the empty ones
Comps(rest) == SelectSeq(rest, LAMBDA t : t \notin Seps)

RECURSIVE Collapse(_, _, _)
\* the loop of ntpath.normpath over the components
Collapse(comps, acc, rooted) ==
    IF comps = <<>> THEN acc
    ELSE LET c == comps[1]
             t == Tail(comps)
         IN  IF c = "." THEN Collapse(t, acc, rooted)
             ELSE IF c = ".."
             THEN IF acc # <<>> /\ acc[Len(acc)] # ".."
                  THEN Collapse(t, SubSeq(acc, 1, Len(acc) - 1), rooted)
                  ELSE IF acc = <<>> /\ rooted
                  THEN Collapse(t, acc, rooted)
                  ELSE Collapse(t, Append(acc, c), rooted)
             ELSE Collapse(t, Append(acc, c), rooted)

RECURSIVE JoinSep(_)
\* sep.join(list)
JoinSep(l) ==
    IF l = <<>> THEN <<>>
    ELSE IF Len(l) = 1 THEN <<l[1]>>
    ELSE <<l[1], SEP>> \o JoinSep(Tail(l))

\* ntpath.normpath
NormPath(s) ==
    LET r == SplitDrive(s)
        rooted == r.rest # <<>> /\ r.rest[1] \in Seps
        comps == Collapse(Comps(r.rest), <<>>, rooted)
        body == (IF rooted THEN <<SEP>> ELSE <<>>) \o JoinSep(comps)
    IN  IF r.drv = "" /\ body = <<>> THEN <<".">> ELSE WithDrive(r.drv, body)

\* ntpath.dirname: everything before the last separator, trailing
\* separators removed unless the head is only separators
RECURSIVE RStripSeps(_)
RStripSeps(s) ==
    IF s # <<>> /\ s[Len(s)] \in Seps
    THEN RStripSeps(SubSeq(s, 1, Len(s) - 1)) ELSE s

RECURSIVE HeadUpToLastSep(_)
HeadUpToLastSep(s) ==
    IF s = <<>> \/ s[Len(s)] \in Seps THEN s
    ELSE HeadUpToLastSep(SubSeq(s, 1, Len(s) - 1))

DirName(s) ==
    LET r == SplitDrive(s)
        head == HeadUpToLastSep(r.rest)
        h == IF RStripSeps(head) = <<>> THEN head ELSE RStripSeps(head)
    IN  WithDrive(r.drv, h)

RECURSIVE CommonLen(_, _)
CommonLen(a, b) ==
    IF a = <<>> \/ b = <<>> \/ a[1] # b[1] THEN 0
    ELSE 1 + CommonLen(Tail(a), Tail(b))

\* ntpath.relpath(path, start) for absolute arguments; ok is FALSE where the
\* code raises ValueError (the drives differ)
RelPath(path, start) ==
    LET p == SplitDrive(NormPath(path))
        s == SplitDrive(NormPath(start))
        pl == Comps(p.rest)
        sl == Comps(s.rest)
        i == CommonLen(sl, pl)
        rel == [k \in 1..(Len(sl) - i) |-> ".."] \o SubSeq(pl, i + 1, Len(pl))
    IN  IF p.drv # s.drv THEN [ok |-> FALSE, rel |-> <<>>]
        ELSE IF rel = <<>> THEN [ok |-> TRUE, rel |-> <<".">>]
        ELSE [ok |-> TRUE, rel |-> JoinSep(rel)]

\* the containment test left out
is_file_into_dir_always(filename, dirname) == TRUE

\* is_file_into_dir(filename, dirname)
is_file_into_dir(filename, dirname) ==
    LET r == RelPath(filename, dirname)
    IN  IF r.ok THEN ~StartsWithDot(r.rel) ELSE FALSE

----------------------------------------------------------------------------
\* The filesystem: drive C: only, a function from the components of a
\* location to its node.  A path string names the location it normalises to.

MaxEntries == 2

TopDir == <<"C:", SEP, "top">>
MARKER == "NIKOLA_SYMLINKS=OK"
SentinelPath == TopDir \o <<SEP, "nikola", SEP, "data", SEP, "symlink-test-link.txt">>
ManifestPath == TopDir \o <<SEP, "nikola", SEP, "data", SEP, "symlinked.txt">>

Dir == [kind |-> "dir", utf8 |-> TRUE, text |-> <<>>]
File(t) == [kind |-> "file", utf8 |-> TRUE, text |-> t]
\* a file whose bytes are not valid UTF-8
BinFile == [kind |-> "file", utf8 |-> FALSE, text |-> <<"bytes">>]
NoFile == [kind |-> "none", utf8 |-> TRUE, text |-> <<>>]

Loc(s) ==
    LET r == SplitDrive(NormPath(s))
    IN  [drv |-> r.drv, comps |-> Comps(r.rest)]

VARIABLES
    fs,           \* the filesystem
    sentinel,     \* node of nikola\data\symlink-test-link.txt
    manifest,     \* node of nikola\data\symlinked.txt
    pc,           \* position in fix_all_git_symlinked
    relnames,     \* the parsed manifest
    i,            \* index of the current name in relnames
    dst, text, src, failures,
    result,       \* the value returned (pc = "done")
    exc,          \* the exception that ended the run (pc = "raised")
    acc,          \* the filesystem accesses made by the last step
    wrote,        \* a write (unlink, copy) was attempted in this run
    manifestRead, \* the manifest was opened in this run
    log,          \* per entry of this run: what was done with it
    mode,         \* how the current run was started
    fsStart,      \* the filesystem when the current run started
    env,          \* what the system has answered to each write so far: the
                  \* same operation on the same paths gets the same answer
    mark,         \* the entry being processed, and the filesystem and the
                  \* failure counter when its processing began
    prev          \* the previous run: how it ended, its filesystem, its log

vars == <<fs, sentinel, manifest, pc, relnames, i, dst, text, src, failures,
          result, exc, acc, wrote, manifestRead, log, mode, fsStart, env,
          mark, prev>>

\* os.path.exists
Exists(f, s) == Loc(s).drv = "C:" /\ Loc(s).comps \in DOMAIN f

\* os.path.isdir
IsDir(f, s) == Exists(f, s) /\ f[Loc(s).comps].kind = "dir"

\* io.open(path, 'r', encoding='utf-8').read() succeeds
Readable(f, s) ==
    /\ Exists(f, s)
    /\ f[Loc(s).comps].kind = "file"
    /\ f[Loc(s).comps].utf8

\* the locations of the tree rooted at location d
Tree(f, d) == {l \in DOMAIN f : IsPrefix(d, l)}

\* shutil.copy2(src, dst) done: dst holds the bytes of src
Copy2(f, s, d) ==
    [l \in DOMAIN f \cup {Loc(d).comps} |->
        IF l = Loc(d).comps THEN f[Loc(s).comps] ELSE f[l]]

\* os.unlink(dst) done
Unlink(f, d) == [l \in DOMAIN f \ {Loc(d).comps} |-> f[l]]

\* shutil.copytree(src, dst) done: the tree of src as listed, under dst
CopyTree(f, s, d) ==
    LET sl == Loc(s).comps
        dl == Loc(d).comps
        new == {dl \o SubSeq(l, Len(sl) + 1, Len(l)) : l \in Tree(f, sl)}
    IN  [l \in DOMAIN f \cup new |->
            IF l \in new
            THEN f[sl \o SubSeq(l, Len(dl) + 1, Len(l))]
            ELSE f[l]]

\* shutil.copytree(src, dst) raised after os.makedirs(dst)
CopyTreePartial(f, d) ==
    [l \in DOMAIN f \cup {Loc(d).comps} |->
        IF l = Loc(d).comps THEN Dir ELSE f[l]]

Access(op, path) == [op |-> op, path |-> path]

----------------------------------------------------------------------------
\* The inputs.

RECURSIVE JoinLines(_)
\* the text of a manifest: one line per entry, each ended by a newline
JoinLines(ls) ==
    IF ls = <<>> THEN <<>> ELSE ls[1] \o <<NL>> \o JoinLines(Tail(ls))

Reverse(q) == [k \in 1..Len(q) |-> q[Len(q) + 1 - k]]

Lines ==
    { <<"l1">>, <<BLANK, "l2", BLANK>>, <<"rd">>, <<"..", ALTSEP, "out">>,
      <<".hid">>, <<"missing">>, <<ALTSEP, "l1">> }

Manifests ==
    {NoFile} \cup
    {File(JoinLines(ls)) : ls \in UNION {[1..n -> Lines] : n \in 0..MaxEntries}}

Sentinels ==
    { NoFile, File(<<MARKER>>), File(<<MARKER, NL>>),
      File(<<"symlink-test-orig.txt">>) }

\* what the placeholder l1 may hold
Texts1 ==
    { <<"real">>, <<"rd">>, <<"..", ALTSEP, "out">>, <<"hello">>, <<"l2">>,
      <<"bin">> }

\* what the placeholder l2 may hold
Texts2 ==
    { <<"real">>, <<"l2">>, <<".hid">>, <<"D:", SEP, "x">>, <<"rd">> }

InitFs(t1, t2) ==
    ( <<>> :> Dir ) @@
    ( <<"out">> :> File(<<"secret">>) ) @@
    ( <<"top">> :> Dir ) @@
    ( <<"top", "real">> :> File(<<"hello">>) ) @@
    ( <<"top", "bin">> :> BinFile ) @@
    ( <<"top", "rd">> :> Dir ) @@
    ( <<"top", "rd", "f">> :> File(<<"hello">>) ) @@
    ( <<"top", ".hid">> :> File(<<"real">>) ) @@
    ( <<"top", "l1">> :> File(t1) ) @@
    ( <<"top", "l2">> :> File(t2) )

NoMark == [set |-> FALSE, name |-> <<>>, fs |-> <<>>, failures |-> 0]

NoPrev == [pc |-> "none", result |-> 0, exc |-> "none", fs |-> <<>>, log |-> <<>>]

\* the locals of a call that has not started
Fresh ==
    /\ pc = "start"
    /\ relnames = <<>>
    /\ i = 0
    /\ dst = <<>>
    /\ text = <<>>
    /\ src = <<>>
    /\ failures = 0
    /\ result = 0
    /\ exc = "none"
    /\ acc = {}
    /\ wrote = FALSE
    /\ manifestRead = FALSE
    /\ log = <<>>
    /\ mark = NoMark

Init ==
    /\ \E t1 \in Texts1, t2 \in Texts2 : fs = InitFs(t1, t2)
    /\ sentinel \in Sentinels
    /\ manifest \in Manifests
    /\ Fresh
    /\ mode = "first"
    /\ fsStart = fs
    /\ env = {}
    /\ prev = NoPrev

\* the locals as in Fresh, at position p
Reset(p) ==
    /\ pc' = p
    /\ relnames' = <<>>
    /\ i' = 0
    /\ dst' = <<>>
    /\ text' = <<>>
    /\ src' = <<>>
    /\ failures' = 0
    /\ result' = 0
    /\ exc' = "none"
    /\ acc' = {}
    /\ wrote' = FALSE
    /\ manifestRead' = FALSE
    /\ log' = <<>>
    /\ mark' = NoMark

\* a new call
Call == Reset("start")

----------------------------------------------------------------------------
\* fix_all_git_symlinked(TopDir), step by step.

Raise(e) ==
    /\ pc' = "raised"
    /\ exc' = e

\* the test inverted
SentinelOkInverted(t) == ~IsPrefix(<<MARKER>>, t)

\* line 71
SentinelOk(t) == IsPrefix(<<MARKER>>, t)

\* lines 69-72
ReadSentinel ==
    /\ pc = "start"
    /\ acc' = {Access("read", SentinelPath)}
    /\ IF sentinel.kind # "file" \/ ~sentinel.utf8
       THEN Raise("IOError") /\ UNCHANGED result
       ELSE IF SentinelOk(sentinel.text)
       THEN pc' = "done" /\ result' = -1 /\ UNCHANGED exc
       ELSE pc' = "manifest" /\ UNCHANGED <<result, exc>>
    /\ UNCHANGED <<fs, sentinel, manifest, relnames, i, dst, text, src,
                   failures, wrote, manifestRead, log, mode, fsStart, prev, mark, env>>

\* lines 79-81
ParseManifest(t) ==
    LET names == SplitLines(t)
        clean == [k \in 1..Len(names) |-> ReplaceAlt(Strip(names[k]))]
    IN  SelectSeq(clean, LAMBDA n : n # <<>>)

\* a leading path separator instead of a leading dot
BadManifestSeparator(t) == Len(t) > 0 /\ t[1] \in Seps

\* line 77
BadManifest(t) == StartsWithDot(t)

\* lines 73-83
ReadManifest ==
    /\ pc = "manifest"
    /\ acc' = {Access("read", ManifestPath)}
    /\ manifestRead' = TRUE
    /\ IF manifest.kind # "file" \/ ~manifest.utf8
       THEN Raise("IOError") /\ UNCHANGED <<relnames, i, failures>>
       ELSE IF BadManifest(manifest.text)
       THEN Raise("BadData") /\ UNCHANGED <<relnames, i, failures>>
       ELSE /\ relnames' = ParseManifest(manifest.text)
            /\ failures' = 0
            /\ i' = 1
            /\ pc' = "loop"
            /\ UNCHANGED exc
    /\ UNCHANGED <<fs, sentinel, manifest, dst, text, src, result, wrote, log,
                   mode, fsStart, prev, mark, env>>

\* "continue": the entry is done, with what was done with it
Continue(how, d, s) ==
    /\ log' = Append(log, [name |-> relnames[i], dst |-> d, src |-> s, how |-> how])
    /\ i' = i + 1
    /\ pc' = "loop"

\* lines 84-92
NextName ==
    /\ pc = "loop"
    /\ i <= Len(relnames)
    /\ LET d == PathJoin(TopDir, relnames[i])
       IN  /\ dst' = d
           /\ mark' = [set |-> TRUE, name |-> relnames[i], fs |-> fs,
                       failures |-> failures]
           /\ IF ~is_file_into_dir(d, TopDir)
              THEN Continue("skip-dst-outside", d, <<>>) /\ acc' = {}
              ELSE /\ acc' = {Access("isdir", d)}
                   /\ IF IsDir(fs, d)
                      THEN Continue("skip-dst-isdir", d, <<>>)
                      ELSE pc' = "read" /\ UNCHANGED <<i, log>>
    /\ UNCHANGED <<fs, sentinel, manifest, relnames, text, src, failures, result,
                   exc, wrote, manifestRead, mode, fsStart, prev, env>>

\* lines 95-96
ReadDst ==
    /\ pc = "read"
    /\ LET path == PathJoin(TopDir, dst)
       IN  /\ acc' = {Access("read", path)}
           /\ IF Readable(fs, path)
              THEN /\ text' = fs[Loc(path).comps].text
                   /\ pc' = "resolve"
                   /\ UNCHANGED exc
              ELSE Raise("ReadDst") /\ UNCHANGED text
    /\ UNCHANGED <<fs, sentinel, manifest, relnames, i, dst, src, failures,
                   result, wrote, manifestRead, log, mode, fsStart, prev, mark, env>>

\* lines 97-102
ResolveSrc ==
    /\ pc = "resolve"
    /\ LET dst_dir == DirName(dst)
           s == NormPath(PathJoin(dst_dir, text))
       IN  /\ src' = s
           /\ acc' = {Access("exists", s)}
           /\ IF ~Exists(fs, s)
              THEN Continue("skip-src-missing", dst, s)
              ELSE pc' = "checksrc" /\ UNCHANGED <<i, log>>
    /\ UNCHANGED <<fs, sentinel, manifest, relnames, dst, text, failures, result,
                   exc, wrote, manifestRead, mode, fsStart, prev, mark, env>>

\* lines 103-105
CheckSrc ==
    /\ pc = "checksrc"
    /\ acc' = {}
    /\ IF ~is_file_into_dir(src, TopDir)
       THEN Continue("skip-src-outside", dst, src)
       ELSE pc' = "copy" /\ UNCHANGED <<i, log>>
    /\ UNCHANGED <<fs, sentinel, manifest, relnames, dst, text, src, failures,
                   result, exc, wrote, manifestRead, mode, fsStart, prev, mark, env>>

\* the failure is reported but not counted
CountFailureForgotten(n) == n

\* line 118
CountFailure(n) == n + 1

\* lines 117-121
CopyFailed ==
    /\ failures' = CountFailure(failures)
    /\ Continue("failed", dst, src)

\* the answer of the system to operation op on (s, d): one of outs, the
\* answer it gave before if it was asked before
Answer(op, s, d, outs, out) ==
    /\ out \in outs
    /\ \A e \in env : (e.op = op /\ e.src = s /\ e.dst = d) => e.out = out
    /\ env' = env \cup {[op |-> op, src |-> s, dst |-> d, out |-> out]}

\* lines 112, 115-116; copy2 raises when src and dst are the same file, and
\* whenever the system refuses the copy
CopyFile ==
    /\ pc = "copy"
    /\ ~IsDir(fs, src)
    /\ acc' = {Access("isdir", src), Access("read", src), Access("write", dst)}
    /\ wrote' = TRUE
    /\ \E out \in {"ok", "refused"} :
          /\ Answer("copy2", src, dst, {"ok", "refused"}, out)
          /\ IF out = "ok" /\ Loc(src) # Loc(dst)
             THEN /\ fs' = Copy2(fs, src, dst)
                  /\ Continue("copied", dst, src)
                  /\ UNCHANGED failures
             ELSE CopyFailed /\ UNCHANGED fs
    /\ UNCHANGED <<sentinel, manifest, relnames, dst, text, src, result, exc,
                   manifestRead, mode, fsStart, prev, mark>>

\* lines 112-113
UnlinkDst ==
    /\ pc = "copy"
    /\ IsDir(fs, src)
    /\ acc' = {Access("isdir", src), Access("unlink", dst)}
    /\ wrote' = TRUE
    /\ \E out \in {"ok", "refused"} :
          /\ Answer("unlink", src, dst, {"ok", "refused"}, out)
          /\ IF out = "ok"
             THEN /\ fs' = Unlink(fs, dst)
                  /\ pc' = "copytree"
                  /\ UNCHANGED <<i, log, failures>>
             ELSE CopyFailed /\ UNCHANGED fs
    /\ UNCHANGED <<sentinel, manifest, relnames, dst, text, src, result, exc,
                   manifestRead, mode, fsStart, prev, mark>>

\* line 114; a copytree that raises has created nothing, or the directory
\* without its content
CopyTreeStep ==
    /\ pc = "copytree"
    /\ acc' = {Access("read", src), Access("write", dst)}
    /\ \E out \in {"ok", "nothing", "partial"} :
          /\ Answer("copytree", src, dst, {"ok", "nothing", "partial"}, out)
          /\ IF out = "ok"
             THEN /\ fs' = CopyTree(fs, src, dst)
                  /\ Continue("copied", dst, src)
                  /\ UNCHANGED failures
             ELSE /\ fs' = IF out = "partial" THEN CopyTreePartial(fs, dst) ELSE fs
                  /\ CopyFailed
    /\ UNCHANGED <<sentinel, manifest, relnames, dst, text, src, result, exc,
                   wrote, manifestRead, mode, fsStart, prev, mark>>

\* line 123
Return ==
    /\ pc = "loop"
    /\ i > Len(relnames)
    /\ pc' = "done"
    /\ result' = failures
    /\ acc' = {}
    /\ UNCHANGED <<fs, sentinel, manifest, relnames, i, dst, text, src, failures,
                   exc, wrote, manifestRead, log, mode, fsStart, prev, mark, env>>

----------------------------------------------------------------------------
\* The callers.

Running == pc \in {"manifest", "loop", "read", "resolve", "checksrc", "copy", "copytree"}
Ended == pc \in {"done", "raised", "killed"}

\* the process is stopped between two steps; its locals are lost
Interrupt ==
    /\ Running
    /\ Reset("killed")
    /\ UNCHANGED <<fs, sentinel, manifest, mode, fsStart, prev, env>>

ThisRun == [pc |-> pc, result |-> result, exc |-> exc, fs |-> fs, log |-> log]

\* the function is called again on the filesystem the last call left; what
\* the system refuses may have changed since
Rerun ==
    /\ Ended
    /\ mode = "first"
    /\ mode' = "rerun"
    /\ prev' = ThisRun
    /\ fsStart' = fs
    /\ env' = {}
    /\ Call
    /\ UNCHANGED <<fs, sentinel, manifest>>

\* the function is called on the filesystem the last call started from, in
\* the same system, the entries of the manifest listed in the opposite order
Reorder ==
    /\ pc \in {"done", "raised"}
    /\ mode = "first"
    /\ manifest.kind = "file"
    /\ mode' = "reorder"
    /\ prev' = ThisRun
    /\ fs' = fsStart
    /\ manifest' = File(JoinLines(Reverse(SelectSeq(SplitLines(manifest.text),
                                                   LAMBDA n : n # <<>>))))
    /\ Call
    /\ UNCHANGED <<sentinel, fsStart, env>>

Next ==
    \/ ReadSentinel
    \/ ReadManifest
    \/ NextName
    \/ ReadDst
    \/ ResolveSrc
    \/ CheckSrc
    \/ CopyFile
    \/ UnlinkDst
    \/ CopyTreeStep
    \/ Return
    \/ Interrupt
    \/ Rerun
    \/ Reorder

Spec == Init /\ [][Next]_vars

----------------------------------------------------------------------------
\* What the claims speak of.

\* the path names a location inside (or at) the root directory
InsideTop(s) ==
    /\ Loc(s).drv = Loc(TopDir).drv
    /\ IsPrefix(Loc(TopDir).comps, Loc(s).comps)

\* the relative path from TopDir exists and does not begin with ".."
NoTraversal(s) ==
    LET r == RelPath(s, TopDir)
    IN  r.ok /\ r.rel[1] # ".."

\* the number of entries of the log whose copy raised
NumFailed(l) == Cardinality({k \in 1..Len(l) : l[k].how = "failed"})

\* the nodes of the tree at location d, by their place under d
TreeUnder(f, d) ==
    [suffix \in {SubSeq(l, Len(d) + 1, Len(l)) : l \in Tree(f, d)} |->
        f[d \o suffix]]

\* location d holds what location s holds: the same file content, or the
\* same directory tree
SameContent(f, s, d) ==
    /\ s \in DOMAIN f
    /\ d \in DOMAIN f
    /\ TreeUnder(f, s) = TreeUnder(f, d)

\* the silent-skip cases of an entry, on filesystem f: the destination is a
\* directory or outside the root, or its content resolves to a path that
\* does not exist or is outside the root
SkipCase(name, f) ==
    LET d == PathJoin(TopDir, name)
    IN  \/ IsDir(f, d)
        \/ ~InsideTop(d)
        \/ /\ Readable(f, d)
           /\ LET s == NormPath(PathJoin(DirName(d), f[Loc(d).comps].text))
              IN  ~Exists(f, s) \/ ~InsideTop(s)

\* no entry is listed twice
Distinct(q) == \A j, k \in 1..Len(q) : q[j] = q[k] => j = k

LoopPcs == {"loop", "read", "resolve", "checksrc", "copy", "copytree"}

----------------------------------------------------------------------------
\* C1: no filesystem access of the per-entry loop is made on a path outside
\* topdir; the resolved source is not probed before its containment check.
\* Stated as: every access of every step is on a path inside the root.
C1_RootContainment == \A a \in acc : InsideTop(a.path)

\* C2: a copy that raises is counted exactly once and does not end the run:
\* in the loop the counter equals the number of entries whose copy raised,
\* and a run that returns after the manifest was read has processed every
\* entry and returns that number, which is not negative.
C2_FailureCount ==
    /\ (pc \in LoopPcs) => failures = NumFailed(log)
    /\ (pc = "done" /\ manifestRead) =>
          /\ result = NumFailed(log)
          /\ result >= 0
          /\ Len(log) = Len(relnames)
          /\ (result = 0 <=> \A k \in 1..Len(log) : log[k].how # "failed")

\* C2 witness: the first entry's copy raised, the second entry was repaired
\* after it, and the run returned 1.
C2_Witness ==
    /\ pc = "done"
    /\ Len(log) = 2
    /\ log[1].how = "failed"
    /\ log[2].how = "copied"
    /\ result = 1

\* C3: once the manifest is read and accepted, no per-entry condition ends
\* the run with an exception.
C3_NoEntryAborts == ~(pc = "raised" /\ exc = "ReadDst")

\* C4: a run on the filesystem left by an earlier run that returned does
\* not raise.
C4_RerunDoesNotRaise == (mode = "rerun" /\ prev.pc = "done") => pc # "raised"

\* C5: when the run has returned, every entry that was copied without an
\* error holds what its resolved source holds: the same file content, or an
\* identical directory tree.  Stated for manifests that list no entry twice.
C5_RepairResult ==
    (pc = "done" /\ Distinct(relnames)) =>
        \A k \in 1..Len(log) :
            log[k].how = "copied" =>
                SameContent(fs, Loc(log[k].src).comps, Loc(log[k].dst).comps)

\* C6: when the sentinel starts with the marker the call returns -1, the
\* manifest is not read and nothing is written; -1 is returned in no other
\* case.
C6_SentinelEarlyExit ==
    /\ (pc = "done" /\ result = -1) =>
          sentinel.kind = "file" /\ IsPrefix(<<MARKER>>, sentinel.text)
    /\ (sentinel.kind = "file" /\ IsPrefix(<<MARKER>>, sentinel.text)) =>
          /\ pc \in {"start", "done"}
          /\ pc = "done" => result = -1
          /\ ~manifestRead
          /\ ~wrote
          /\ fs = fsStart
          /\ log = <<>>

\* C6 witness: a call has returned -1.
C6_Witness == pc = "done" /\ result = -1 /\ fs = fsStart /\ ~manifestRead

C8_ContainmentExact ==
    /\ (pc \in LoopPcs \ {"loop"}) =>
          is_file_into_dir(dst, TopDir) = NoTraversal(dst)
    /\ (pc \in {"checksrc", "copy", "copytree"}) =>
          is_file_into_dir(src, TopDir) = NoTraversal(src)
    /\ \A k \in 1..Len(log) :
          log[k].how = "skip-dst-outside" => ~NoTraversal(log[k].dst)

\* C9: an entry in one of the silent-skip cases leaves the filesystem and
\* the failure counter as they were when its processing began.
C9_SilentSkips ==
    (mark.set /\ SkipCase(mark.name, mark.fs)) =>
        /\ fs = mark.fs
        /\ failures = mark.failures
        /\ pc \in {"loop", "done"} =>
              /\ log # <<>>
              /\ log[Len(log)].name = mark.name
              /\ log[Len(log)].how \notin {"copied", "failed"}

\* C9 witness: an entry whose content resolves to an existing path outside
\* the root has been skipped.
C9_Witness ==
    /\ pc = "loop"
    /\ mark.set
    /\ SkipCase(mark.name, mark.fs)
    /\ log # <<>>
    /\ log[Len(log)].how = "skip-src-outside"
    /\ ~InsideTop(log[Len(log)].src)

\* C10: two runs from the same filesystem, in the same system, over the same
\* entries in opposite orders end with the same filesystem and the same
\* return value.  Stated for two runs in which no copy raised.
C10_OrderIndependent ==
    (mode = "reorder" /\ prev.pc = "done" /\ pc = "done"
        /\ prev.result = 0 /\ result = 0)
    => fs = prev.fs

====
